---- MODULE Spec2Model ----
(***************************************************************************)
(* Veo 3.1 Prompt Studio (veo3_1_prompt_studio.py).                        *)
(*                                                                         *)
(* The program is a Streamlit script: every user interaction re-executes   *)
(* main() from the top against the session state (st.session_state) and    *)
(* the values the browser holds for the widgets.  The model follows one    *)
(* script run through its positions (pc): the top of main, the structuring *)
(* button, generate_veo_structure, the two editor columns, the settings    *)
(* controls and the export.                                                *)
(*                                                                         *)
(* Strings the program takes apart (titles, timestamps, file names) are    *)
(* sequences of one-character strings; strings it only stores and compares *)
(* are TLA+ strings.  An optional value (None or a value) is the empty     *)
(* sequence or a one-element sequence.                                     *)
(***************************************************************************)
EXTENDS Integers, Sequences, FiniteSets, TLC

(***************************************************************************)
(* Bounds of the model.                                                    *)
(***************************************************************************)
\* number of user interactions (script runs started by the user) explored
MaxRuns == 4
\* number of clock ticks explored (datetime.now() is read from this clock)
MaxClock == 2

(***************************************************************************)
(* Program constants.                                                      *)
(***************************************************************************)
\* st.number_input(..., min_value=1, max_value=60)
MinDuration == 1
MaxDuration == 60
\* TechnicalSettings(..., duration_sec=8, ...) of the initial session state
DefaultDuration == 8
\* except ValueError: ar_idx = 0   (0-based, as in the source)
ArFallbackIdx == 0
\* except ValueError: res_idx = 1  (0-based, as in the source)
ResFallbackIdx == 1

ar_options == <<"16:9", "9:16", "1:1", "4:3", "3:4">>
res_options == <<"720p", "1080p">>

(***************************************************************************)
(* Character strings.                                                      *)
(***************************************************************************)
None == <<>>
Some(v) == <<v>>

\* "untitled_project", the title of the initial session state
UntitledProject ==
  <<"u","n","t","i","t","l","e","d","_","p","r","o","j","e","c","t">>
CyberpunkRobot ==
  <<"c","y","b","e","r","p","u","n","k"," ","r","o","b","o","t">>
\* a title typed with surrounding blanks and an inner blank
PaddedTitle == <<" ","a"," ","b"," ">>
DotJson == <<".","j","s","o","n">>

\* the characters str.strip() removes (those that occur in the model)
Whitespace == {" ", "\t", "\n"}

RECURSIVE LStrip(_)
LStrip(s) ==
  IF s = <<>> THEN <<>>
  ELSE IF Head(s) \in Whitespace THEN LStrip(Tail(s)) ELSE s

RECURSIVE RStrip(_)
RStrip(s) ==
  IF s = <<>> THEN <<>>
  ELSE IF s[Len(s)] \in Whitespace THEN RStrip(SubSeq(s, 1, Len(s) - 1)) ELSE s

\* str.strip()
Strip(s) == RStrip(LStrip(s))

\* str.replace(old, new) for one-character old and new
Replace(s, old, new) == [i \in 1..Len(s) |-> IF s[i] = old THEN new ELSE s[i]]

\* str.split(sep)[0] for a one-character sep: the text before the first sep,
\* the whole string when sep does not occur
RECURSIVE SplitFirst(_, _)
SplitFirst(s, sep) ==
  IF s = <<>> THEN <<>>
  ELSE IF Head(s) = sep THEN <<>>
  ELSE <<Head(s)>> \o SplitFirst(Tail(s), sep)

Digit == <<"0","1","2","3","4","5","6","7","8","9">>
TwoDigits(n) == <<Digit[(n \div 10) + 1], Digit[(n % 10) + 1]>>

(***************************************************************************)
(* The clock.  Tick t stands for the instant 12*t hours (and t half        *)
(* seconds) after 2024-05-01T10:00:00; datetime.isoformat() writes the     *)
(* microseconds only when they are not zero.                               *)
(***************************************************************************)
IsoFormat(t) ==
  LET day  == 1 + (t \div 2)
      hour == IF t % 2 = 0 THEN 10 ELSE 22
      frac == IF t % 2 = 0 THEN <<>> ELSE <<".","5","0","0","0","0","0">>
  IN  <<"2","0","2","4","-","0","5","-">> \o TwoDigits(day) \o <<"T">>
        \o TwoDigits(hour) \o <<":","0","0",":","0","0">> \o frac

(***************************************************************************)
(* Export file name, main lines 215-217.                                   *)
(***************************************************************************)
\* faulty variant of SafeTitle: the blanks inside the title are kept
SafeTitleStripOnly(title) == Strip(title)

SafeTitle(title) == Replace(Strip(title), " ", "_")
DateStr(created_at) == SplitFirst(created_at, "T")
FileName(title, created_at) ==
  SafeTitle(title) \o <<"_">> \o DateStr(created_at) \o DotJson

(***************************************************************************)
(* Data schema, lines 20-45.  A VeoData value is a record of four records. *)
(***************************************************************************)
ProjectMeta(title, created_at) == [title |-> title, created_at |-> created_at]

VideoElements(subject, action, context, cinematography, style) ==
  [subject |-> subject, action |-> action, context |-> context,
   cinematography |-> cinematography, style |-> style]

AudioElements(ambient_music, sfx, dialogue) ==
  [ambient_music |-> ambient_music, sfx |-> sfx, dialogue |-> dialogue]

\* duration_sec is declared int, with no range constraint on the field
TechnicalSettings(aspect_ratio, duration_sec, resolution) ==
  [aspect_ratio |-> aspect_ratio, duration_sec |-> duration_sec,
   resolution |-> resolution]

VeoData(project_meta, video_5_elements, audio_3_elements, technical_settings) ==
  [project_meta |-> project_meta, video_5_elements |-> video_5_elements,
   audio_3_elements |-> audio_3_elements,
   technical_settings |-> technical_settings]

\* the initial session state, main lines 116-121, created at clock tick t
InitialVeoData(t) ==
  VeoData(ProjectMeta(UntitledProject, IsoFormat(t)),
          VideoElements("", "", "", "", ""),
          AudioElements("", "", ""),
          TechnicalSettings("16:9", DefaultDuration, "720p"))

(***************************************************************************)
(* What the model service can answer.  response.parsed is None when the    *)
(* text is not JSON of the schema, else a VeoData with the model's own     *)
(* title and created_at and any integer duration_sec.                      *)
(***************************************************************************)
ModelTitle == <<"m","y","_","c","l","i","p">>
ModelCreatedAt == <<"1","9","9","9","-","0","1","-","0","1">>

ParsedByModel(aspect_ratio, resolution, duration_sec) ==
  VeoData(ProjectMeta(ModelTitle, ModelCreatedAt),
          VideoElements("model subject", "model action", "model context",
                        "model cinematography", "model style"),
          AudioElements("model music", "model sfx", "model dialogue"),
          TechnicalSettings(aspect_ratio, duration_sec, resolution))

ParsedValues ==
  { ParsedByModel("9:16", "720p", DefaultDuration),
    ParsedByModel("21:9", "4k", MinDuration),
    ParsedByModel("16:9", "1080p", MaxDuration),
    ParsedByModel("3:4", "1080p", MaxDuration + 1),
    ParsedByModel("1:1", "720p", MinDuration - 1) }

\* outcomes of client.models.generate_content: it raises (network failure,
\* non-2xx answer, rejected credential) or returns a response
RequestOutcomes ==
  {[raised |-> TRUE, parsed |-> None]}
    \cup {[raised |-> FALSE, parsed |-> None]}
    \cup {[raised |-> FALSE, parsed |-> Some(v)] : v \in ParsedValues}

(***************************************************************************)
(* What the user can do between two script runs.  Each run answers one     *)
(* interaction (Streamlit reruns the script on every widget change); the   *)
(* values typed into the key, title and idea inputs stay in the browser    *)
(* from run to run, the editor controls return their default unless the    *)
(* interaction of this run changed them.                                   *)
(***************************************************************************)
TitleInputs == {<<>>, CyberpunkRobot, PaddedTitle}
PromptInputs == {"", "a robot walking through a rainy city"}
KeyInputs == {"", "key"}
UserTexts == {"edited"}
VideoFields == {"subject", "action", "context", "cinematography", "style"}
AudioFields == {"ambient_music", "sfx", "dialogue"}

Event(kind, field, text, title, num) ==
  [kind |-> kind, field |-> field, text |-> text, title |-> title, num |-> num]
NoEvent == Event("none", "", "", <<>>, 0)

\* the interactions the page offers, given how far the last run rendered it
Events(shown, env_key) ==
  {NoEvent}
    \cup (IF shown # "none" /\ env_key = ""
          THEN {Event("key", "", k, <<>>, 0) : k \in KeyInputs} ELSE {})
    \cup (IF shown \in {"inputs", "select", "all"}
          THEN {Event("title", "", "", t, 0) : t \in TitleInputs}
                 \cup {Event("prompt", "", p, <<>>, 0) : p \in PromptInputs}
                 \cup {Event("click", "", "", <<>>, 0)}
          ELSE {})
    \cup (IF shown \in {"select", "all"}
          THEN {Event("text", f, x, <<>>, 0) :
                  f \in VideoFields \cup AudioFields, x \in UserTexts}
                 \cup {Event("ar", "", ar_options[i], <<>>, 0) :
                         i \in 1..Len(ar_options)}
                 \cup {Event("res", "", res_options[i], <<>>, 0) :
                         i \in 1..Len(res_options)}
          ELSE {})
    \cup (IF shown = "all"
          THEN {Event("dur", "", "", <<>>, d) : d \in {MinDuration, MaxDuration}}
          ELSE {})

(***************************************************************************)
(* State.                                                                  *)
(***************************************************************************)
VARIABLES
  env_api_key,    \* os.environ.get("API_KEY"), "" when it is not set
  session_state,  \* st.session_state: a record with the field veo_data, or empty
  key_widget,     \* what the browser holds for the API-key text input
  title_widget,   \* None, or [param, value] of the project-name text input
  prompt_widget,  \* what the browser holds for the idea text area
  shown,          \* how far the last run rendered the page
  now,            \* the clock
  runs,           \* user interactions so far
  pc,             \* position of the script run
  event,          \* the user interaction this run answers
  title_input,    \* local of main, line 127
  prompt_input,   \* local of main, line 130
  requests,       \* outbound requests of the current invocation
  response,       \* None, or the response generate_content returned
  result,         \* None, or the VeoData generate_veo_structure returned
  outcome,        \* how the invocation of generate_veo_structure ended
  ar_idx,         \* local of main, lines 186-189
  res_idx,        \* local of main, lines 191-194
  new_ar,         \* local of main, line 198
  new_res,        \* local of main, line 199
  new_dur,        \* local of main, line 201
  download,       \* None, or [data, file_name] given to st.download_button
  errors,         \* st.error messages of this run
  warnings,       \* st.warning messages of this run
  fault           \* the exception that ended this run, "none" if none

widgets == <<key_widget, title_widget, prompt_widget>>
inputs == <<title_input, prompt_input>>
call == <<requests, response, result, outcome>>
settings == <<ar_idx, res_idx, new_ar, new_res, new_dur>>
messages == <<errors, warnings, fault>>
vars == <<env_api_key, session_state, widgets, shown, now, runs, pc, event,
          inputs, call, settings, download, messages>>

EmptySession == [k \in {} |-> None]
HasVeoData == "veo_data" \in DOMAIN session_state
veo_data == session_state.veo_data

Init ==
  /\ env_api_key \in KeyInputs
  /\ session_state = EmptySession
  /\ key_widget = ""
  /\ title_widget = None
  /\ prompt_widget = ""
  /\ shown = "none"
  /\ now = 0
  /\ runs = 0
  /\ pc = "idle"
  /\ event = NoEvent
  /\ title_input = <<>>
  /\ prompt_input = ""
  /\ requests = 0
  /\ response = None
  /\ result = None
  /\ outcome = "none"
  /\ ar_idx = 0
  /\ res_idx = 0
  /\ new_ar = ""
  /\ new_res = ""
  /\ new_dur = 0
  /\ download = None
  /\ errors = 0
  /\ warnings = 0
  /\ fault = "none"

(***************************************************************************)
(* Widgets.  A widget without a key is identified by its label and its     *)
(* arguments: while the arguments stay the same it returns what the        *)
(* browser holds, and with a new default it starts again from the default. *)
(***************************************************************************)
TextInput(widget, param) ==
  IF widget # None /\ widget[1].param = param THEN widget[1].value ELSE param

\* st.text_area(label, value=param) of an editor field
TextArea(field, param) ==
  IF event.kind = "text" /\ event.field = field THEN event.text ELSE param

\* list.index(x) with the except ValueError branch, 0-based as in the source
IndexOrFallback(options, x, fallback) ==
  IF \E i \in 1..Len(options) : options[i] = x
  THEN (CHOOSE i \in 1..Len(options) :
          /\ options[i] = x
          /\ \A j \in 1..(i - 1) : options[j] # x) - 1
  ELSE fallback

\* lines 186-189
ArIdx(aspect_ratio) == IndexOrFallback(ar_options, aspect_ratio, ArFallbackIdx)
\* faulty variant of ResIdx: falls back to the first option
ResIdxFirst(resolution) ==
  IndexOrFallback(res_options, resolution, ArFallbackIdx)

\* lines 191-194
ResIdx(resolution) == IndexOrFallback(res_options, resolution, ResFallbackIdx)

\* st.selectbox(label, options, index=index)
Selectbox(kind, options, index) ==
  IF event.kind = kind THEN event.text ELSE options[index + 1]

\* st.number_input raises when the default lies outside [min_value, max_value]
NumberInputRaises(value) == value < MinDuration \/ value > MaxDuration
NumberInput(value) == IF event.kind = "dur" THEN event.num ELSE value

(***************************************************************************)
(* The clock advances on its own.                                          *)
(***************************************************************************)
Tick ==
  /\ now < MaxClock
  /\ now' = now + 1
  /\ UNCHANGED <<env_api_key, session_state, widgets, shown, runs, pc, event,
                 inputs, call, settings, download, messages>>

(***************************************************************************)
(* Top of main, lines 106-130, for a run that answers the interaction e.   *)
(* k, tw and pw are the browser's widget values when the run starts.       *)
(***************************************************************************)
Top(e, k, tw, pw) ==
  LET api_key == IF env_api_key # "" THEN env_api_key ELSE k
  IN
  /\ event' = e
  /\ key_widget' = k
  /\ requests' = 0
  /\ response' = None
  /\ result' = None
  /\ outcome' = "none"
  /\ ar_idx' = 0
  /\ res_idx' = 0
  /\ new_ar' = ""
  /\ new_res' = ""
  /\ new_dur' = 0
  /\ download' = None
  /\ errors' = 0
  /\ warnings' = 0
  /\ fault' = "none"
  /\ UNCHANGED <<env_api_key, now>>
  /\ IF api_key = ""
     THEN \* st.info, st.stop(): nothing below line 112 is rendered
          /\ pc' = "idle"
          /\ shown' = "key"
          /\ title_widget' = None
          /\ prompt_widget' = ""
          /\ title_input' = <<>>
          /\ prompt_input' = ""
          /\ UNCHANGED session_state
     ELSE /\ session_state' =
               IF HasVeoData THEN session_state
               ELSE [veo_data |-> InitialVeoData(now)]
          /\ LET param == session_state'.veo_data.project_meta.title
                 value == TextInput(tw, param)
             IN  /\ title_input' = value
                 /\ title_widget' = Some([param |-> param, value |-> value])
          /\ prompt_input' = pw
          /\ prompt_widget' = pw
          /\ pc' = "button"
          /\ UNCHANGED shown

\* the user does something on the page, and the script runs again
UserRun ==
  /\ pc = "idle"
  /\ runs < MaxRuns
  /\ runs' = runs + 1
  /\ \E e \in Events(shown, env_api_key) :
       Top(e,
           IF e.kind = "key" THEN e.text ELSE key_widget,
           IF e.kind = "title"
           THEN Some([param |-> title_widget[1].param, value |-> e.title])
           ELSE title_widget,
           IF e.kind = "prompt" THEN e.text ELSE prompt_widget)

\* the run that st.rerun() (line 141) starts
AutoRun ==
  /\ pc = "rerun"
  /\ UNCHANGED runs
  /\ Top(NoEvent, key_widget, title_widget, prompt_widget)

(***************************************************************************)
(* The structuring button, lines 133-137.                                  *)
(***************************************************************************)
\* faulty variant of MissingInput: only the title is looked at
MissingTitleOnly(title, prompt) == title = <<>>

\* line 134: not title_input or not prompt_input
MissingInput(title, prompt) == title = <<>> \/ prompt = ""

Button ==
  /\ pc = "button"
  /\ IF event.kind # "click"
     THEN /\ pc' = "video_column"
          /\ UNCHANGED warnings
     ELSE IF MissingInput(title_input, prompt_input)
     THEN /\ warnings' = warnings + 1
          /\ pc' = "video_column"
     ELSE \* line 138 calls generate_veo_structure
          /\ pc' = "gen_client"
          /\ UNCHANGED warnings
  /\ UNCHANGED <<env_api_key, session_state, widgets, shown, now, runs, event,
                 inputs, call, settings, download, errors, fault>>

(***************************************************************************)
(* generate_veo_structure, lines 48-92.                                    *)
(***************************************************************************)
\* line 49, before the try: the client is built, or its constructor raises
\* and the exception leaves generate_veo_structure and main
GenClient ==
  /\ pc = "gen_client"
  /\ \/ /\ pc' = "gen_request"
        /\ UNCHANGED <<outcome, fault, shown>>
     \/ /\ outcome' = "Raised"
        /\ fault' = "ClientError"
        /\ shown' = "inputs"
        /\ pc' = "idle"
  /\ UNCHANGED <<env_api_key, session_state, widgets, now, runs, event, inputs,
                 requests, response, result, settings, download, errors,
                 warnings>>

\* faulty variant of OnException: a blank PromptSpecification is returned
OnExceptionBlank == Some(InitialVeoData(now))

\* lines 90-92: what the except clause returns
OnException == None

\* lines 73-82: the one call of generate_content; when it raises, the except
\* clause shows the error and returns
GenRequest ==
  /\ pc = "gen_request"
  /\ requests' = requests + 1
  /\ \E r \in RequestOutcomes :
       IF r.raised
       THEN /\ errors' = errors + 1
            /\ result' = OnException
            /\ outcome' = "Failed"
            /\ pc' = "if_result"
            /\ UNCHANGED response
       ELSE /\ response' = Some(r)
            /\ pc' = "gen_parse"
            /\ UNCHANGED <<errors, result, outcome>>
  /\ UNCHANGED <<env_api_key, session_state, widgets, shown, now, runs, event,
                 inputs, settings, download, warnings, fault>>

\* faulty variant of OverwriteMeta: the model's title is kept
OverwriteMetaKeepTitle(parsed_data, user_title, t) ==
  [parsed_data EXCEPT !.project_meta.created_at = IsoFormat(t)]

\* lines 85-86: the two assignments to project_meta
OverwriteMeta(parsed_data, user_title, t) ==
  [parsed_data EXCEPT !.project_meta.created_at = IsoFormat(t),
                      !.project_meta.title = user_title]

\* lines 84-92: response.parsed is None (attribute access raises, the except
\* clause shows the error and returns) or the VeoData that is stamped and
\* returned
GenParse ==
  /\ pc = "gen_parse"
  /\ LET parsed_data == response[1].parsed
     IN  IF parsed_data = None
         THEN /\ errors' = errors + 1
              /\ result' = OnException
              /\ outcome' = "Failed"
         ELSE /\ result' = Some(OverwriteMeta(parsed_data[1], title_input, now))
              /\ outcome' = "Succeeded"
              /\ UNCHANGED errors
  /\ pc' = "if_result"
  /\ UNCHANGED <<env_api_key, session_state, widgets, shown, now, runs, event,
                 inputs, requests, response, settings, download, warnings,
                 fault>>

\* lines 139-141: if result: replace the session state and run again
IfResult ==
  /\ pc = "if_result"
  /\ IF result # None
     THEN /\ session_state' = [session_state EXCEPT !.veo_data = result[1]]
          /\ pc' = "rerun"
     ELSE /\ pc' = "video_column"
          /\ UNCHANGED session_state
  /\ UNCHANGED <<env_api_key, widgets, shown, now, runs, event, inputs, call,
                 settings, download, messages>>

(***************************************************************************)
(* The editor, lines 146-209.                                              *)
(***************************************************************************)
\* lines 149-164: the five text areas, then the five assignments
VideoColumn ==
  /\ pc = "video_column"
  /\ LET v_data == veo_data.video_5_elements
     IN  session_state' =
           [session_state EXCEPT !.veo_data.video_5_elements =
              VideoElements(TextArea("subject", v_data.subject),
                            TextArea("action", v_data.action),
                            TextArea("context", v_data.context),
                            TextArea("cinematography", v_data.cinematography),
                            TextArea("style", v_data.style))]
  /\ pc' = "audio_column"
  /\ UNCHANGED <<env_api_key, widgets, shown, now, runs, event, inputs, call,
                 settings, download, messages>>

\* lines 168-177: the three text areas, then the three assignments
AudioColumn ==
  /\ pc = "audio_column"
  /\ LET a_data == veo_data.audio_3_elements
     IN  session_state' =
           [session_state EXCEPT !.veo_data.audio_3_elements =
              AudioElements(TextArea("ambient_music", a_data.ambient_music),
                            TextArea("sfx", a_data.sfx),
                            TextArea("dialogue", a_data.dialogue))]
  /\ pc' = "settings_select"
  /\ UNCHANGED <<env_api_key, widgets, shown, now, runs, event, inputs, call,
                 settings, download, messages>>

\* lines 180-199: the two indexes and the two select boxes
SettingsSelect ==
  /\ pc = "settings_select"
  /\ LET t_data == veo_data.technical_settings
     IN  /\ ar_idx' = ArIdx(t_data.aspect_ratio)
         /\ res_idx' = ResIdx(t_data.resolution)
  /\ new_ar' = Selectbox("ar", ar_options, ar_idx')
  /\ new_res' = Selectbox("res", res_options, res_idx')
  /\ pc' = "number_input"
  /\ UNCHANGED <<env_api_key, session_state, widgets, shown, now, runs, event,
                 inputs, call, new_dur, download, messages>>

\* line 201: the duration control; an out-of-range default raises
\* StreamlitAPIException, which ends the run
DurationInput ==
  /\ pc = "number_input"
  /\ LET t_data == veo_data.technical_settings
     IN  IF NumberInputRaises(t_data.duration_sec)
         THEN /\ fault' = "StreamlitAPIException"
              /\ shown' = "select"
              /\ pc' = "idle"
              /\ UNCHANGED new_dur
         ELSE /\ new_dur' = NumberInput(t_data.duration_sec)
              /\ pc' = "commit"
              /\ UNCHANGED <<fault, shown>>
  /\ UNCHANGED <<env_api_key, session_state, widgets, now, runs, event, inputs,
                 call, ar_idx, res_idx, new_ar, new_res, download, errors,
                 warnings>>

\* lines 204-206
AssignSettings(veo, ar, res, dur) ==
  [veo EXCEPT !.technical_settings.aspect_ratio = ar,
              !.technical_settings.resolution = res,
              !.technical_settings.duration_sec = dur]

\* faulty variant of SyncTitle: the title is not copied
SyncTitleSkipped(veo, title) == veo

\* faulty variant of SyncTitle: project_meta is rebuilt with a new timestamp
SyncTitleRestamped(veo, title) ==
  [veo EXCEPT !.project_meta = ProjectMeta(title, IsoFormat(now))]

\* line 209
SyncTitle(veo, title) == [veo EXCEPT !.project_meta.title = title]

\* lines 204-209
CommitSettings ==
  /\ pc = "commit"
  /\ session_state' =
       [session_state EXCEPT !.veo_data =
          SyncTitle(AssignSettings(veo_data, new_ar, new_res, new_dur),
                    title_input)]
  /\ pc' = "export"
  /\ UNCHANGED <<env_api_key, widgets, shown, now, runs, event, inputs, call,
                 settings, download, messages>>

(***************************************************************************)
(* The export, lines 214-226.                                              *)
(***************************************************************************)
\* model_dump_json: the JSON object, by its four keys and their fields
ModelDump(veo) ==
  [project_meta |-> veo.project_meta,
   video_5_elements |-> veo.video_5_elements,
   audio_3_elements |-> veo.audio_3_elements,
   technical_settings |-> veo.technical_settings]

Export ==
  /\ pc = "export"
  /\ download' =
       Some([data |-> ModelDump(veo_data),
             file_name |-> FileName(veo_data.project_meta.title,
                                    veo_data.project_meta.created_at)])
  /\ shown' = "all"
  /\ pc' = "idle"
  /\ UNCHANGED <<env_api_key, session_state, widgets, now, runs, event, inputs,
                 call, settings, messages>>

Next ==
  \/ Tick
  \/ UserRun
  \/ AutoRun
  \/ Button
  \/ GenClient
  \/ GenRequest
  \/ GenParse
  \/ IfResult
  \/ VideoColumn
  \/ AudioColumn
  \/ SettingsSelect
  \/ DurationInput
  \/ CommitSettings
  \/ Export

Spec == Init /\ [][Next]_vars

(***************************************************************************)
(* Properties.                                                             *)
(***************************************************************************)
Range(seq) == {seq[i] : i \in 1..Len(seq)}
InGenerate == pc \in {"gen_client", "gen_request", "gen_parse"}
\* the run reached the export step (download is cleared when a run starts)
Exported == pc = "idle" /\ download # None

\* C1: from the call of generate_veo_structure to the end of the failed call
\* (it returned None after the except clause), no step changes the session's
\* PromptSpecification: every field, title and created_at included, is the
\* one held before the call.
C1_FailedCallKeepsSession ==
  [][(InGenerate \/ (pc = "if_result" /\ outcome = "Failed"))
       => session_state' = session_state]_vars

\* C1 witness: a failed call has returned; the session still holds the title
\* the user gave it and the created_at of the session's start.
C1_Witness ==
  /\ pc = "video_column"
  /\ outcome = "Failed"
  /\ errors = 1
  /\ now > 0
  /\ veo_data.project_meta.title = CyberpunkRobot
  /\ veo_data.project_meta.created_at = IsoFormat(0)

\* C2: when the response parses, the returned PromptSpecification has the
\* caller's title, the timestamp of the clock at the parse, and the model's
\* values in every other field; the model's title and created_at are gone.
C2_SuccessStampsTitleAndTime ==
  [][(pc = "gen_parse" /\ pc' = "if_result" /\ response[1].parsed # None)
       => LET m == response[1].parsed[1]
          IN  result' =
                Some([project_meta |->
                        [title |-> title_input, created_at |-> IsoFormat(now)],
                      video_5_elements |-> m.video_5_elements,
                      audio_3_elements |-> m.audio_3_elements,
                      technical_settings |-> m.technical_settings])]_vars

\* C2 witness: a successful call returned the user's title and a timestamp
\* later than the session's start, not the model's own.
C2_Witness ==
  /\ pc = "if_result"
  /\ outcome = "Succeeded"
  /\ result[1].project_meta.title = CyberpunkRobot
  /\ result[1].project_meta.created_at = IsoFormat(1)
  /\ result[1].video_5_elements.subject = "model subject"

\* C3 (as claimed): the session's duration_sec always lies in 1..60, and no
\* run ends in a fault of the duration control.
C3_DurationInRange ==
  /\ HasVeoData =>
       veo_data.technical_settings.duration_sec \in MinDuration..MaxDuration
  /\ fault # "StreamlitAPIException"

\* C4 (as claimed): every failure of an invocation is caught inside
\* generate_veo_structure: it shows one error and returns None, and no
\* invocation ends with an exception reaching main.
C4_EveryFailureCaught ==
  /\ outcome = "Failed" => (errors = 1 /\ result = None)
  /\ outcome # "Raised"
  /\ fault # "ClientError"

\* C5: when the editor reaches the select boxes, a stored aspect_ratio
\* outside the options selects "16:9" and a stored resolution outside the
\* options selects "1080p"; a stored member selects itself; the select boxes
\* return that selection unless the user picked another option in this run;
\* and no fault and no error message comes from it.
C5_SelectFallback ==
  pc = "number_input" =>
    LET t_data == veo_data.technical_settings
    IN  /\ ar_idx \in 0..(Len(ar_options) - 1)
        /\ res_idx \in 0..(Len(res_options) - 1)
        /\ t_data.aspect_ratio \notin Range(ar_options)
             => ar_options[ar_idx + 1] = "16:9"
        /\ t_data.resolution \notin Range(res_options)
             => res_options[res_idx + 1] = "1080p"
        /\ t_data.aspect_ratio \in Range(ar_options)
             => ar_options[ar_idx + 1] = t_data.aspect_ratio
        /\ t_data.resolution \in Range(res_options)
             => res_options[res_idx + 1] = t_data.resolution
        /\ event.kind # "ar" => new_ar = ar_options[ar_idx + 1]
        /\ event.kind # "res" => new_res = res_options[res_idx + 1]
        /\ fault = "none"
        /\ errors = (IF outcome = "Failed" THEN 1 ELSE 0)

\* C5 witness: the model answered "21:9" and "4k"; the select boxes show
\* "16:9" and "1080p".
C5_Witness ==
  /\ pc = "number_input"
  /\ veo_data.technical_settings.aspect_ratio = "21:9"
  /\ veo_data.technical_settings.resolution = "4k"
  /\ new_ar = "16:9"
  /\ new_res = "1080p"

\* C6: when a run reaches the export step, the session's project_meta.title
\* equals the project-name field (what main read and what the browser
\* holds), and the exported JSON and file name carry that title.
C6_TitleSynchronized ==
  (pc = "export" \/ Exported) =>
    /\ veo_data.project_meta.title = title_input
    /\ title_widget # None
    /\ title_widget[1].value = veo_data.project_meta.title
    /\ Exported =>
         /\ download[1].data.project_meta.title = title_input
         /\ download[1].file_name =
              FileName(title_input, veo_data.project_meta.created_at)

\* C6 witness: the user retyped the title and the run completed.
C6_Witness ==
  /\ Exported
  /\ event.kind = "title"
  /\ title_input = PaddedTitle
  /\ veo_data.project_meta.title = PaddedTitle

\* C7: once the session holds a PromptSpecification, its created_at changes
\* in no step other than the one that installs the result of a successful
\* structuring call: not in an edit of any field, not in a failed call, not
\* in the export.
C7_CreatedAtImmutable ==
  [][(HasVeoData /\ ~(pc = "if_result" /\ outcome = "Succeeded"))
       => /\ "veo_data" \in DOMAIN session_state'
          /\ session_state'.veo_data.project_meta.created_at =
               veo_data.project_meta.created_at]_vars

\* C7 witness: after edits of the title and of a text field at a later
\* time, and an export, created_at is still the one of the session's start.
C7_Witness ==
  /\ Exported
  /\ now > 0
  /\ veo_data.project_meta.title = CyberpunkRobot
  /\ veo_data.video_5_elements.style = "edited"
  /\ veo_data.project_meta.created_at = IsoFormat(0)

\* C8: a press of the button with an empty title or an empty idea shows one
\* warning, does not enter generate_veo_structure, issues no request and
\* leaves the session as it is; generate_veo_structure runs, and a request
\* exists, only with both non-empty.
C8_MissingInputNoRequest ==
  /\ [](InGenerate \/ requests > 0 => (title_input # <<>> /\ prompt_input # ""))
  /\ [][(pc = "button" /\ pc' # "button" /\ event.kind = "click"
           /\ (title_input = <<>> \/ prompt_input = ""))
          => /\ warnings' = warnings + 1
             /\ pc' = "video_column"
             /\ requests' = 0
             /\ session_state' = session_state]_vars

\* C8 witness: the button was pressed with a title and no idea.
C8_Witness ==
  /\ pc = "video_column"
  /\ event.kind = "click"
  /\ warnings = 1
  /\ title_input # <<>>
  /\ prompt_input = ""
  /\ requests = 0

\* C9 (as claimed): every invocation that has ended issued exactly one
\* request and ended as Succeeded or as Failed; no invocation issues more
\* than one.
C9_OneRequestOneOutcome ==
  /\ requests <= 1
  /\ outcome # "none" => (requests = 1 /\ outcome \in {"Succeeded", "Failed"})

\* C10 (as claimed): the export file name is the title with each space
\* replaced by an underscore, then "_", the text of created_at before "T",
\* and ".json".
C10_FileNameAsClaimed ==
  Exported =>
    download[1].file_name =
      Replace(veo_data.project_meta.title, " ", "_") \o <<"_">>
        \o SubSeq(veo_data.project_meta.created_at, 1, 10) \o DotJson

\* C10 (amended): the export file name is the title without its leading and
\* trailing whitespace and with each remaining space replaced by an
\* underscore, then "_", the text of created_at before its first "T", and
\* ".json"; for "cyberpunk robot" and 2024-05-01T10:00:00 it is
\* cyberpunk_robot_2024-05-01.json.
C10_FileNameStripped ==
  Exported =>
    LET title == veo_data.project_meta.title
        created_at == veo_data.project_meta.created_at
        name == download[1].file_name
    IN  /\ \E k \in 1..Len(created_at) :
             /\ created_at[k] = "T"
             /\ \A j \in 1..(k - 1) : created_at[j] # "T"
             /\ name = Replace(Strip(title), " ", "_") \o <<"_">>
                         \o SubSeq(created_at, 1, k - 1) \o DotJson
        /\ (title = CyberpunkRobot /\ created_at = IsoFormat(0))
             => name = <<"c","y","b","e","r","p","u","n","k","_",
                         "r","o","b","o","t","_",
                         "2","0","2","4","-","0","5","-","0","1",
                         ".","j","s","o","n">>

\* C10 witness: a title typed with surrounding blanks was exported.
C10_Witness ==
  /\ Exported
  /\ veo_data.project_meta.title = PaddedTitle
  /\ download[1].file_name =
       <<"a","_","b","_","2","0","2","4","-","0","5","-","0","1",
         ".","j","s","o","n">>

====
